---- MODULE Spec2Model ----
(***************************************************************************)
(* Status-resolution engine of the Delaware City status proxy.             *)
(*                                                                         *)
(* The repository holds successive revisions of one Express server:        *)
(*   "failover9"      src/server.js 1-162      sequential, 9 sources       *)
(*   "failover3"      src/server.js 164-276    sequential, 3 sources       *)
(*   "parallel"       src/server.js 278-426    parallel, severity override *)
(*   "parallelCached" src/unnamed/part_000 75-340  the same, with a cache  *)
(*   "majority"       src/unnamed/part_001     parallel, majority vote,    *)
(*                                             with a cache                *)
(* A source is named by its index in SCRAPERS (its registration order).    *)
(* A scrape either returns one of OPEN / CLOSED / DELAYED or throws; the   *)
(* outcome of a throw is its error.message.                                *)
(***************************************************************************)
EXTENDS Integers, Sequences, FiniteSets, TLC

\* ---------------------------------------------------------------- bounds
NumSources == 2      \* length of SCRAPERS in the server specification
MaxReq     == 2      \* /status requests per behaviour
MaxTicks   == 3      \* clock advances per behaviour
MaxLen     == 4      \* longest verdict sequence given to the pure policies
MaxWords   == 4      \* most words of a fetched document
MaxRegionWords == 1  \* most words of its targeted region
FillerLen  == 31     \* length of the word without any keyword

\* ------------------------------------------------------- program constants
TIMEOUT_MS           == 5000
TIMEOUT_MS_failover9 == 4000
CACHE_TTL_MS         == 60000
WINDOW               == 50       \* substring(districtIndex, districtIndex + 50)
TIMEOUT_INTENDED_MS  == 10000    \* "Use a timeout of 10 seconds", failover3

Variants == {"failover9", "failover3", "parallel", "parallelCached", "majority"}
Cached   == {"parallelCached", "majority"}
Parallel == {"parallel", "parallelCached", "majority"}
Failover == {"failover9", "failover3"}

Decisive      == {"OPEN", "CLOSED", "DELAYED"}
ErrorMessages == {"timeout of 5000ms exceeded", "Request failed with status code 403"}
Outcomes      == Decisive \cup ErrorMessages

null    == [isNull |-> TRUE]
noError == "null"    \* let firstError = null
pending == [isPending |-> TRUE]
unscraped == "pending"    \* a scrape that has produced nothing (yet)

\* ------------------------------------------------------------- helpers
\* new Date().toISOString(): the instant printed as seconds and milliseconds
toISOString(ms) == <<ms \div 1000, ms % 1000>>

\* Date.parse of such a string
isoToMs(ts) == ts[1] * 1000 + ts[2]

\* Array.prototype.filter on the status field
filter(results, S) == SelectSeq(results, LAMBDA r : r.status \in S)

\* Array.prototype.find on the status field; null stands for undefined
find(results, s) ==
    LET l == filter(results, {s}) IN IF Len(l) = 0 THEN null ELSE l[1]

\* scraper.role of part_001's SCRAPERS
role(i) == IF i = 1 THEN "official" ELSE "media"

\* a source label: a scraper's name, or a synthetic label with a count
sourceName(i)        == [label |-> "name", name |-> i, count |-> 0]
sourceLabel(text, n) == [label |-> text, name |-> 0, count |-> n]

\* --------------------------------------------- the per-scraper promise
\* a promise settles with a value, or rejects with the error thrown
rejects(settlement) == "rejected" \in DOMAIN settlement

\* the callback without its try/catch: what the scraper throws rejects it
checkPromise_noCatch(i, o) ==
    IF o \in Decisive
    THEN [name |-> i, status |-> o]
    ELSE [rejected |-> o]

\* SCRAPERS.map(async (scraper) => { try ... catch ... })
checkPromise(i, o) ==
    IF o \in Decisive
    THEN [name |-> i, status |-> o]
    ELSE [name |-> i, status |-> "ERROR", error |-> o]

\* the same callback in part_001, which also copies scraper.role
checkPromiseRole(i, o) ==
    IF o \in Decisive
    THEN [name |-> i, role |-> role(i), status |-> o]
    ELSE [name |-> i, role |-> role(i), status |-> "ERROR", error |-> o]

\* ------------------------------------------------ resolution policies
\* severity override, src/server.js: "Bad news overrides good news"
ParallelDecision_openFirst(results, timestamp) ==
    LET successCount == Len(filter(results, {"OPEN"}))
        closedSource == find(results, "CLOSED")
        delayedSource == find(results, "DELAYED")
    IN  IF successCount > 0
        THEN [status |-> "OPEN", timestamp |-> timestamp,
              source |-> sourceLabel("Consensus of N sources", successCount),
              results_summary |-> results]
        ELSE IF closedSource # null
        THEN [status |-> "CLOSED", timestamp |-> timestamp,
              source |-> sourceName(closedSource.name), results_summary |-> results]
        ELSE IF delayedSource # null
        THEN [status |-> "DELAYED", timestamp |-> timestamp,
              source |-> sourceName(delayedSource.name), results_summary |-> results]
        ELSE [status |-> "UNKNOWN", timestamp |-> timestamp,
              error |-> "All sources failed"]

ParallelDecision_delayFirst(results, timestamp) ==
    LET closedSource == find(results, "CLOSED")
        delayedSource == find(results, "DELAYED")
        successCount == Len(filter(results, {"OPEN"}))
    IN  IF delayedSource # null
        THEN [status |-> "DELAYED", timestamp |-> timestamp,
              source |-> sourceName(delayedSource.name), results_summary |-> results]
        ELSE IF closedSource # null
        THEN [status |-> "CLOSED", timestamp |-> timestamp,
              source |-> sourceName(closedSource.name), results_summary |-> results]
        ELSE IF successCount > 0
        THEN [status |-> "OPEN", timestamp |-> timestamp,
              source |-> sourceLabel("Consensus of N sources", successCount),
              results_summary |-> results]
        ELSE [status |-> "UNKNOWN", timestamp |-> timestamp,
              error |-> "All sources failed"]

ParallelDecision_countAll(results, timestamp) ==
    LET closedSource == find(results, "CLOSED")
        delayedSource == find(results, "DELAYED")
        successCount == Len(filter(results, {"OPEN"}))
    IN  IF closedSource # null
        THEN [status |-> "CLOSED", timestamp |-> timestamp,
              source |-> sourceName(closedSource.name), results_summary |-> results]
        ELSE IF delayedSource # null
        THEN [status |-> "DELAYED", timestamp |-> timestamp,
              source |-> sourceName(delayedSource.name), results_summary |-> results]
        ELSE IF successCount > 0
        THEN [status |-> "OPEN", timestamp |-> timestamp,
              source |-> sourceLabel("Consensus of N sources", Len(results)),
              results_summary |-> results]
        ELSE [status |-> "UNKNOWN", timestamp |-> timestamp,
              error |-> "All sources failed"]

ParallelDecision(results, timestamp) ==
    LET closedSource == find(results, "CLOSED")
        delayedSource == find(results, "DELAYED")
        successCount == Len(filter(results, {"OPEN"}))
    IN  IF closedSource # null
        THEN [status |-> "CLOSED", timestamp |-> timestamp,
              source |-> sourceName(closedSource.name), results_summary |-> results]
        ELSE IF delayedSource # null
        THEN [status |-> "DELAYED", timestamp |-> timestamp,
              source |-> sourceName(delayedSource.name), results_summary |-> results]
        ELSE IF successCount > 0
        THEN [status |-> "OPEN", timestamp |-> timestamp,
              source |-> sourceLabel("Consensus of N sources", successCount),
              results_summary |-> results]
        ELSE [status |-> "UNKNOWN", timestamp |-> timestamp,
              error |-> "All sources failed"]

\* severity override, src/unnamed/part_000: total failure keeps the summary
CachedParallelDecision(results, timestamp) ==
    LET closedSource == find(results, "CLOSED")
        delayedSource == find(results, "DELAYED")
        successCount == Len(filter(results, {"OPEN"}))
    IN  IF closedSource # null
        THEN [status |-> "CLOSED", timestamp |-> timestamp,
              source |-> sourceName(closedSource.name), results_summary |-> results]
        ELSE IF delayedSource # null
        THEN [status |-> "DELAYED", timestamp |-> timestamp,
              source |-> sourceName(delayedSource.name), results_summary |-> results]
        ELSE IF successCount > 0
        THEN [status |-> "OPEN", timestamp |-> timestamp,
              source |-> sourceLabel("Consensus of N sources", successCount),
              results_summary |-> results]
        ELSE [status |-> "UNKNOWN", timestamp |-> timestamp,
              error |-> "All sources failed", results_summary |-> results]

\* majority vote, src/unnamed/part_001
decideStatus_firstWins(results) ==
    LET nonError == filter(results, Decisive)
    IN  IF Len(nonError) = 0
        THEN [status |-> "UNKNOWN", source |-> sourceLabel("No successful sources", 0)]
        ELSE [status |-> nonError[1].status, source |-> sourceName(nonError[1].name)]

decideStatus_strictClosed(results) ==
    LET nonError == filter(results, Decisive)
        openList == filter(nonError, {"OPEN"})
        closedList == filter(nonError, {"CLOSED"})
        delayedList == filter(nonError, {"DELAYED"})
        openCount == Len(openList)
        closedCount == Len(closedList)
        delayedCount == Len(delayedList)
    IN  IF Len(nonError) = 0
        THEN [status |-> "UNKNOWN", source |-> sourceLabel("No successful sources", 0)]
        ELSE IF closedCount > openCount /\ closedCount > delayedCount /\ closedCount > 0
        THEN [status |-> "CLOSED",
              source |-> [label |-> "NAME (majority of N sources)",
                          name |-> closedList[1].name, count |-> closedCount]]
        ELSE IF delayedCount > openCount /\ delayedCount > closedCount /\ delayedCount > 0
        THEN [status |-> "DELAYED",
              source |-> [label |-> "NAME (majority of N sources)",
                          name |-> delayedList[1].name, count |-> delayedCount]]
        ELSE IF openCount > 0
        THEN [status |-> "OPEN",
              source |-> sourceLabel("Consensus / plurality of N sources", openCount)]
        ELSE [status |-> "UNKNOWN", source |-> sourceLabel("Conflicting results", 0)]

decideStatus_lastContributor(results) ==
    LET nonError == filter(results, Decisive)
        openList == filter(nonError, {"OPEN"})
        closedList == filter(nonError, {"CLOSED"})
        delayedList == filter(nonError, {"DELAYED"})
        openCount == Len(openList)
        closedCount == Len(closedList)
        delayedCount == Len(delayedList)
    IN  IF Len(nonError) = 0
        THEN [status |-> "UNKNOWN", source |-> sourceLabel("No successful sources", 0)]
        ELSE IF closedCount > openCount /\ closedCount >= delayedCount /\ closedCount > 0
        THEN [status |-> "CLOSED",
              source |-> [label |-> "NAME (majority of N sources)",
                          name |-> closedList[closedCount].name, count |-> closedCount]]
        ELSE IF delayedCount > openCount /\ delayedCount > closedCount /\ delayedCount > 0
        THEN [status |-> "DELAYED",
              source |-> [label |-> "NAME (majority of N sources)",
                          name |-> delayedList[delayedCount].name, count |-> delayedCount]]
        ELSE IF openCount > 0
        THEN [status |-> "OPEN",
              source |-> sourceLabel("Consensus / plurality of N sources", openCount)]
        ELSE [status |-> "UNKNOWN", source |-> sourceLabel("Conflicting results", 0)]

decideStatus(results) ==
    LET nonError == filter(results, Decisive)
        openList == filter(nonError, {"OPEN"})
        closedList == filter(nonError, {"CLOSED"})
        delayedList == filter(nonError, {"DELAYED"})
        openCount == Len(openList)
        closedCount == Len(closedList)
        delayedCount == Len(delayedList)
    IN  IF Len(nonError) = 0
        THEN [status |-> "UNKNOWN", source |-> sourceLabel("No successful sources", 0)]
        ELSE IF closedCount > openCount /\ closedCount >= delayedCount /\ closedCount > 0
        THEN [status |-> "CLOSED",
              source |-> [label |-> "NAME (majority of N sources)",
                          name |-> closedList[1].name, count |-> closedCount]]
        ELSE IF delayedCount > openCount /\ delayedCount > closedCount /\ delayedCount > 0
        THEN [status |-> "DELAYED",
              source |-> [label |-> "NAME (majority of N sources)",
                          name |-> delayedList[1].name, count |-> delayedCount]]
        ELSE IF openCount > 0
        THEN [status |-> "OPEN",
              source |-> sourceLabel("Consensus / plurality of N sources", openCount)]
        ELSE [status |-> "UNKNOWN", source |-> sourceLabel("Conflicting results", 0)]

\* the object getSchoolStatus of part_001 returns
MajorityDecision(results, timestamp) ==
    LET decision == decideStatus(results)
    IN  [status |-> decision.status, timestamp |-> timestamp,
         source |-> decision.source, results_summary |-> results]

\* ------------------------------------------------------------ the state
VARIABLES
    variant,         \* which revision of the server is running
    clock,           \* Date.now(), in ms
    ticks,           \* how often the clock has advanced
    lastResult,      \* the cache slot (null at start)
    lastResultTime,  \* the time stored with it
    pc,              \* per request: "idle", "fetching", "done"; "aborted" when
                     \* the handler rejected and no response is ever sent
    now,             \* per request: Date.now() when the handler ran
    started,         \* per request: when its pending fetches were dispatched
    results,         \* per request: what each checkPromise resolved to, or pending
    pos,             \* per request: index of the scraper the failover loop awaits
    errors,          \* per request: the errors array of failover9
    firstError,      \* per request: firstError of failover3
    response,        \* per request: the JSON sent, or null
    scraped,         \* per request: the outcome of each scrape of its cycle
    seen,            \* per request: the cache slot its handler found
    overlap,         \* per request: the requests in flight when it arrived
    polResults,      \* pure policies: the verdict sequence
    polPerm,         \* pure policies: a permutation of its indices
    polOut,          \* pure policies: the last resolution
    docRegion,       \* extraction: the words of the document's targeted region
    docRest,         \* extraction: the words of the rest of the document
    extOut           \* extraction: the last verdict a scraper computed

serverVars == <<variant, clock, ticks, lastResult, lastResultTime, pc, now, started,
                results, pos, errors, firstError, response, scraped, seen,
                overlap>>
polVars == <<polResults, polPerm, polOut>>
extVars == <<docRegion, docRest, extOut>>
vars == <<serverVars, polVars, extVars>>

Sources  == 1..NumSources
Requests == 1..MaxReq

\* the axios timeout of each revision's scrapers; failover3 passes none
Timeout(v) == IF v = "failover9" THEN TIMEOUT_MS_failover9 ELSE TIMEOUT_MS
HasTimeout(v) == v # "failover3"

\* the amounts by which the clock advances between two events
TickSteps(v) ==
    IF v \in Cached THEN {Timeout(v), CACHE_TTL_MS - Timeout(v)} ELSE {Timeout(v)}

InFlight == {r \in Requests : pc[r] = "fetching"}

ServerStart(v) ==
    /\ variant = v
    /\ clock = 0
    /\ ticks = 0
    /\ lastResult = null
    /\ lastResultTime = 0
    /\ pc = [r \in Requests |-> "idle"]
    /\ now = [r \in Requests |-> 0]
    /\ started = [r \in Requests |-> 0]
    /\ results = [r \in Requests |-> <<>>]
    /\ pos = [r \in Requests |-> 0]
    /\ errors = [r \in Requests |-> <<>>]
    /\ firstError = [r \in Requests |-> noError]
    /\ response = [r \in Requests |-> null]
    /\ scraped = [r \in Requests |-> [i \in Sources |-> unscraped]]
    /\ seen = [r \in Requests |-> null]
    /\ overlap = [r \in Requests |-> {}]

PolIdle ==
    /\ polResults = <<>>
    /\ polPerm = <<>>
    /\ polOut = null

ExtIdle ==
    /\ docRegion = <<>>
    /\ docRest = <<>>
    /\ extOut = null

Init == (\E v \in Variants : ServerStart(v)) /\ PolIdle /\ ExtIdle

\* requests are numbered in the order they arrive
Arrives(r) ==
    /\ pc[r] = "idle"
    /\ \A q \in Requests : q < r => pc[q] # "idle"
    /\ now' = [now EXCEPT ![r] = clock]
    /\ seen' = [seen EXCEPT ![r] = lastResult]
    /\ overlap' = [overlap EXCEPT ![r] = InFlight]

\* time passes; a fetch with a timeout has settled before its timeout is over
Tick(d) ==
    /\ ticks < MaxTicks
    /\ d \in TickSteps(variant)
    /\ HasTimeout(variant) =>
          \A r \in InFlight : clock + d <= started[r] + Timeout(variant)
    /\ clock' = clock + d
    /\ ticks' = ticks + 1
    /\ UNCHANGED <<variant, lastResult, lastResultTime, pc, now, started, results,
                   pos, errors, firstError, response, scraped, seen, overlap,
                   polVars, extVars>>

\* a hit that also restarts the window of the slot
StatusHit_touch(r) ==
    /\ variant \in Cached
    /\ Arrives(r)
    /\ lastResult # null /\ clock - lastResultTime < CACHE_TTL_MS
    /\ response' = [response EXCEPT ![r] = ("cached" :> TRUE) @@ lastResult]
    /\ pc' = [pc EXCEPT ![r] = "done"]
    /\ lastResultTime' = clock
    /\ UNCHANGED <<variant, clock, ticks, lastResult, started,
                   results, pos, errors, firstError, scraped, polVars, extVars>>

\* app.get('/status') of the cached revisions: the slot is fresh
StatusHit(r) ==
    /\ variant \in Cached
    /\ Arrives(r)
    /\ lastResult # null /\ clock - lastResultTime < CACHE_TTL_MS
    /\ response' = [response EXCEPT ![r] = ("cached" :> TRUE) @@ lastResult]
    /\ pc' = [pc EXCEPT ![r] = "done"]
    /\ UNCHANGED <<variant, clock, ticks, lastResult, lastResultTime, started,
                   results, pos, errors, firstError, scraped, polVars, extVars>>

\* app.get('/status') up to its await: getSchoolStatus fires every scraper
StatusMiss(r) ==
    /\ variant \in Parallel
    /\ Arrives(r)
    /\ variant \in Cached =>
          ~(lastResult # null /\ clock - lastResultTime < CACHE_TTL_MS)
    /\ pc' = [pc EXCEPT ![r] = "fetching"]
    /\ started' = [started EXCEPT ![r] = clock]
    /\ results' = [results EXCEPT ![r] = [i \in Sources |-> pending]]
    /\ UNCHANGED <<variant, clock, ticks, lastResult, lastResultTime, pos, errors,
                   firstError, response, scraped, polVars, extVars>>

\* getSchoolStatus answering with the status of the cache slot when every
\* source failed
Decision_staleIfError(v, res, timestamp) ==
    LET data == CASE v = "parallel" -> ParallelDecision(res, timestamp)
                  [] v = "parallelCached" -> CachedParallelDecision(res, timestamp)
                  [] v = "majority" -> MajorityDecision(res, timestamp)
    IN  IF data.status = "UNKNOWN" /\ lastResult # null
        THEN [data EXCEPT !.status = lastResult.status]
        ELSE data

\* what getSchoolStatus returns once Promise.all has resolved
Decision(v, res, timestamp) ==
    CASE v = "parallel" -> ParallelDecision(res, timestamp)
      [] v = "parallelCached" -> CachedParallelDecision(res, timestamp)
      [] v = "majority" -> MajorityDecision(res, timestamp)

\* Promise.all keeps the value of the i-th promise at index i of its array
resolveAt(res, i, value) == [res EXCEPT ![i] = value]

\* await Promise.all(checkPromises): the array once every promise has
\* resolved; <<>> while the await is still suspended
PromiseAll_firstClosed(res) ==
    IF \E j \in 1..Len(res) : res[j] # pending /\ res[j].status = "CLOSED"
    THEN SelectSeq(res, LAMBDA e : e # pending)
    ELSE IF \A j \in 1..Len(res) : res[j] # pending THEN res ELSE <<>>

PromiseAll(res) ==
    IF \A j \in 1..Len(res) : res[j] # pending THEN res ELSE <<>>

\* catch (err) of the /status handler: res.status(500).json(...)
InternalServerError == [status |-> "ERROR", error |-> "Internal server error"]

\* one scrape of a parallel cycle settles.  The last checkPromise to resolve
\* resolves Promise.all, and the handler runs to its end.  A checkPromise that
\* rejects makes Promise.all reject at once: the handler's catch answers 500,
\* and the handler without a try/catch rejects and never answers.
ScrapeSettles(r, i, o) ==
    /\ variant \in Parallel
    /\ pc[r] = "fetching"
    /\ scraped[r][i] = unscraped
    /\ LET settlement == IF variant = "majority" THEN checkPromiseRole(i, o)
                                                 ELSE checkPromise(i, o)
           res == resolveAt(results[r], i, settlement)
           all == PromiseAll(res)
           settled == all # <<>>
           data == Decision(variant, all, toISOString(clock))
       IN  /\ scraped' = [scraped EXCEPT ![r][i] = o]
           /\ IF rejects(settlement)
              THEN /\ IF variant \in Cached
                      THEN /\ response' = [response EXCEPT ![r] = InternalServerError]
                           /\ pc' = [pc EXCEPT ![r] = "done"]
                      ELSE /\ pc' = [pc EXCEPT ![r] = "aborted"]
                           /\ UNCHANGED response
                   /\ UNCHANGED <<results, lastResult, lastResultTime>>
              ELSE /\ results' = [results EXCEPT ![r] = res]
                   /\ IF ~settled
                      THEN UNCHANGED <<pc, response, lastResult, lastResultTime>>
                      ELSE /\ pc' = [pc EXCEPT ![r] = "done"]
                           /\ IF variant \in Cached
                              THEN /\ lastResult' = data
                                   /\ lastResultTime' = now[r]
                                   /\ response' = [response EXCEPT ![r] =
                                                      ("cached" :> FALSE) @@ data]
                              ELSE /\ response' = [response EXCEPT ![r] = data]
                                   /\ UNCHANGED <<lastResult, lastResultTime>>
    /\ UNCHANGED <<variant, clock, ticks, now, started, pos, errors, firstError,
                   seen, overlap, polVars, extVars>>

\* app.get('/status') of the failover revisions up to the first await of the loop
FailoverStart(r) ==
    /\ variant \in Failover
    /\ Arrives(r)
    /\ pc' = [pc EXCEPT ![r] = "fetching"]
    /\ pos' = [pos EXCEPT ![r] = 1]
    /\ started' = [started EXCEPT ![r] = clock]
    /\ UNCHANGED <<variant, clock, ticks, lastResult, lastResultTime, results, errors,
                   firstError, response, scraped, polVars, extVars>>

\* getSchoolStatus of failover9 after its loop: every scraper threw
Failover9AllFailed(errs, timestamp) ==
    [status |-> "OPEN", timestamp |-> timestamp,
     source |-> sourceLabel("All Sources Failed - Defaulting Open", 0),
     debug_errors |-> errs]

\* getSchoolStatus of failover3 after its loop
Failover3Result(finalStatus, sourceUsed, first, timestamp) ==
    IF finalStatus = "NO REPORT / UNKNOWN" /\ first # noError
    THEN [status |-> finalStatus, timestamp |-> timestamp,
          error |-> <<"All sources failed. First failure:", first>>]
    ELSE [status |-> finalStatus, timestamp |-> timestamp, source |-> sourceUsed]

\* if (status === 'OPEN' || status === 'CLOSED' || status === 'DELAYED')
valid_notOpen(status) == status \in {"CLOSED", "DELAYED"}

valid(status) == status \in {"OPEN", "CLOSED", "DELAYED"}

\* if (!firstError) firstError = error.message
storeFirstError_last(first, message) == message

storeFirstError(first, message) == IF first = noError THEN message ELSE first

\* the scrape the failover9 loop awaits settles: it returned a status, or it
\* threw and the catch pushes the error and continues
Failover9Settles(r, o) ==
    /\ variant = "failover9"
    /\ pc[r] = "fetching"
    /\ scraped' = [scraped EXCEPT ![r][pos[r]] = o]
    /\ LET threw == o \in ErrorMessages
           errs == IF threw THEN Append(errors[r], <<pos[r], o>>) ELSE errors[r]
       IN  /\ errors' = [errors EXCEPT ![r] = errs]
           /\ IF ~threw /\ valid(o)
              THEN /\ response' = [response EXCEPT ![r] =
                          [status |-> o, timestamp |-> toISOString(clock),
                           source |-> sourceName(pos[r])]]
                   /\ pc' = [pc EXCEPT ![r] = "done"]
                   /\ UNCHANGED <<pos, started>>
              ELSE IF pos[r] < NumSources
              THEN /\ pos' = [pos EXCEPT ![r] = pos[r] + 1]
                   /\ started' = [started EXCEPT ![r] = clock]
                   /\ UNCHANGED <<pc, response>>
              ELSE /\ response' = [response EXCEPT ![r] =
                          Failover9AllFailed(errs, toISOString(clock))]
                   /\ pc' = [pc EXCEPT ![r] = "done"]
                   /\ UNCHANGED <<pos, started>>
    /\ UNCHANGED <<variant, clock, ticks, lastResult, lastResultTime, now, results,
                   firstError, seen, overlap, polVars, extVars>>

\* the scrape the failover3 loop awaits settles
Failover3Settles(r, o) ==
    /\ variant = "failover3"
    /\ pc[r] = "fetching"
    /\ scraped' = [scraped EXCEPT ![r][pos[r]] = o]
    /\ LET threw == o \in ErrorMessages
           first == IF threw THEN storeFirstError(firstError[r], o)
                             ELSE firstError[r]
       IN  /\ firstError' = [firstError EXCEPT ![r] = first]
           /\ IF ~threw /\ valid(o)
              THEN /\ response' = [response EXCEPT ![r] =
                          Failover3Result(o, sourceName(pos[r]), first,
                                          toISOString(clock))]
                   /\ pc' = [pc EXCEPT ![r] = "done"]
                   /\ UNCHANGED <<pos, started>>
              ELSE IF pos[r] < NumSources
              THEN /\ pos' = [pos EXCEPT ![r] = pos[r] + 1]
                   /\ started' = [started EXCEPT ![r] = clock]
                   /\ UNCHANGED <<pc, response>>
              ELSE /\ response' = [response EXCEPT ![r] =
                          Failover3Result("NO REPORT / UNKNOWN",
                                          sourceLabel("None", 0), first,
                                          toISOString(clock))]
                   /\ pc' = [pc EXCEPT ![r] = "done"]
                   /\ UNCHANGED <<pos, started>>
    /\ UNCHANGED <<variant, clock, ticks, lastResult, lastResultTime, now, results,
                   errors, seen, overlap, polVars, extVars>>

Next ==
    \/ \E d \in TickSteps(variant) : Tick(d)
    \/ \E r \in Requests : StatusHit(r)
    \/ \E r \in Requests : StatusMiss(r)
    \/ \E r \in Requests, i \in Sources, o \in Outcomes : ScrapeSettles(r, i, o)
    \/ \E r \in Requests : FailoverStart(r)
    \/ \E r \in Requests, o \in Outcomes : Failover9Settles(r, o)
    \/ \E r \in Requests, o \in Outcomes : Failover3Settles(r, o)

Spec == Init /\ [][Next]_vars

\* ------------------------------------------- the policies as pure functions
\* The verdict sequence polResults[1..n] is what scrapers 1..n produced; polPerm
\* is an order of the same sources.  Each action runs one policy on the array
\* in registration order and on the array in the permuted order.
Orders(n) ==
    {p \in [1..n -> 1..n] : \A i, j \in 1..n : i # j => p[i] # p[j]}

ResultsOf(outs, perm, withRole) ==
    [j \in 1..Len(outs) |->
        IF withRole THEN checkPromiseRole(perm[j], outs[perm[j]])
                    ELSE checkPromise(perm[j], outs[perm[j]])]

Identity(n) == [i \in 1..n |-> i]

\* the policies read only the status of a failed source: one message is enough
PolicyOutcomes == Decisive \cup {"timeout of 5000ms exceeded"}

PolicyInit ==
    /\ ServerStart("parallel")
    /\ \E n \in 1..MaxLen :
          /\ polResults \in [1..n -> PolicyOutcomes]
          /\ polPerm \in Orders(n)
    /\ polOut = null
    /\ ExtIdle

ResolveParallel ==
    /\ polOut' = [strategy |-> "parallel",
                  input |-> ResultsOf(polResults, Identity(Len(polResults)), FALSE),
                  result |-> ParallelDecision(
                      ResultsOf(polResults, Identity(Len(polResults)), FALSE),
                      toISOString(clock)),
                  permuted |-> ParallelDecision(
                      ResultsOf(polResults, polPerm, FALSE), toISOString(clock))]
    /\ UNCHANGED <<serverVars, polResults, polPerm, extVars>>

ResolveCachedParallel ==
    /\ polOut' = [strategy |-> "parallelCached",
                  input |-> ResultsOf(polResults, Identity(Len(polResults)), FALSE),
                  result |-> CachedParallelDecision(
                      ResultsOf(polResults, Identity(Len(polResults)), FALSE),
                      toISOString(clock)),
                  permuted |-> CachedParallelDecision(
                      ResultsOf(polResults, polPerm, FALSE), toISOString(clock))]
    /\ UNCHANGED <<serverVars, polResults, polPerm, extVars>>

ResolveMajority ==
    /\ polOut' = [strategy |-> "majority",
                  input |-> ResultsOf(polResults, Identity(Len(polResults)), TRUE),
                  result |-> MajorityDecision(
                      ResultsOf(polResults, Identity(Len(polResults)), TRUE),
                      toISOString(clock)),
                  permuted |-> MajorityDecision(
                      ResultsOf(polResults, polPerm, TRUE), toISOString(clock))]
    /\ UNCHANGED <<serverVars, polResults, polPerm, extVars>>

PolicyNext == ResolveParallel \/ ResolveCachedParallel \/ ResolveMajority

SpecPolicy == PolicyInit /\ [][PolicyNext]_vars

\* ------------------------------------------------------------ extraction
\* A text is a sequence of characters.  The fetched documents are made of a
\* few words, so that aliases and keywords occur in every order, inside and
\* outside the window after the district's name, and in both letter cases.
Vocabulary ==
    << <<"D", "e", "l", "a", "w", "a", "r", "e", " ", "C", "i", "t", "y">>,    \* Delaware City
       <<" ", "S", "c", "h", "o", "o", "l", "s">>,    \* " Schools"
       <<"C", "L", "O", "S", "E", "D">>,    \* CLOSED
       <<"c", "l", "o", "s", "u", "r", "e">>,    \* closure
       <<"D", "E", "L", "A", "Y", "E", "D">>,    \* DELAYED
       <<"T", "W", "O", "-", "H", "O", "U", "R">>,    \* TWO-HOUR
       <<"2", "-", "H", "O", "U", "R">>,    \* 2-HOUR
       [k \in 1..FillerLen |-> "."] >>

\* the text made of the words ws (indices into Vocabulary)
RECURSIVE Concat(_)
Concat(ws) == IF ws = <<>> THEN <<>> ELSE Vocabulary[Head(ws)] \o Concat(Tail(ws))

\* String.prototype.toUpperCase
UpperOf == ("a" :> "A") @@ ("c" :> "C") @@ ("e" :> "E") @@ ("h" :> "H") @@ ("i" :> "I") @@ ("l" :> "L") @@ ("o" :> "O") @@ ("r" :> "R") @@ ("s" :> "S") @@ ("t" :> "T") @@ ("u" :> "U") @@ ("w" :> "W") @@ ("y" :> "Y")

toUpperCase(text) ==
    [k \in 1..Len(text) |-> IF text[k] \in DOMAIN UpperOf THEN UpperOf[text[k]]
                                                          ELSE text[k]]

\* String.prototype.includes
includes(text, word) ==
    \E k \in 0..(Len(text) - Len(word)) :
        \A j \in 1..Len(word) : text[k + j] = word[j]

\* String.prototype.indexOf: the index, from 0, of the first occurrence; -1 if none
indexOf(text, word) ==
    IF includes(text, word)
    THEN CHOOSE k \in 0..(Len(text) - Len(word)) :
            /\ \A j \in 1..Len(word) : text[k + j] = word[j]
            /\ \A h \in 0..(k - 1) : \E j \in 1..Len(word) : text[h + j] # word[j]
    ELSE -1

\* String.prototype.substring(from, to), indices from 0, to exclusive
Min(a, b) == IF a < b THEN a ELSE b

substring(text, from, to) == SubSeq(text, from + 1, Min(to, Len(text)))

CLOSED   == <<"C", "L", "O", "S", "E", "D">>
CLOSURE  == <<"C", "L", "O", "S", "U", "R", "E">>
DELAY    == <<"D", "E", "L", "A", "Y">>
DELAYED  == <<"D", "E", "L", "A", "Y", "E", "D">>
TWO_HOUR == <<"T", "W", "O", "-", "H", "O", "U", "R">>
N2_HOUR  == <<"2", "-", "H", "O", "U", "R">>

DISTRICT_NAME_CLEAN           == <<"D", "e", "l", "a", "w", "a", "r", "e", " ", "C", "i", "t", "y", " ", "S", "c", "h", "o", "o", "l", "s">>    \* 'Delaware City Schools'
DISTRICT_NAME_CLEAN_failover9 == <<"D", "e", "l", "a", "w", "a", "r", "e", " ", "C", "i", "t", "y">>    \* 'Delaware City'
DELAWARE_CITY                 == <<"D", "E", "L", "A", "W", "A", "R", "E", " ", "C", "I", "T", "Y">>
DELAWARE_CITY_SCHOOLS         == <<"D", "E", "L", "A", "W", "A", "R", "E", " ", "C", "I", "T", "Y", " ", "S", "C", "H", "O", "O", "L", "S">>
DELAWARE_CITY_SCHOOL_DISTRICT == <<"D", "E", "L", "A", "W", "A", "R", "E", " ", "C", "I", "T", "Y", " ", "S", "C", "H", "O", "O", "L", " ", "D", "I", "S", "T", "R", "I", "C", "T">>

\* checkTextForStatus of the failover and parallel revisions in src/server.js
checkTextForStatus_failover9(text, districtName) ==
    LET cleanText == toUpperCase(text)
        cleanDistrict == toUpperCase(districtName)
    IN  IF includes(cleanText, cleanDistrict)
        THEN IF includes(cleanText, CLOSED) \/ includes(cleanText, CLOSURE)
             THEN "CLOSED"
             ELSE IF \/ includes(cleanText, DELAY)
                     \/ includes(cleanText, TWO_HOUR)
                     \/ includes(cleanText, N2_HOUR)
             THEN "DELAYED"
             ELSE "OPEN"
        ELSE "OPEN"

\* the scanner without its test for the district's name
checkTextForStatus_noAlias(text, districtName) ==
    LET cleanText == toUpperCase(text)
    IN  IF includes(cleanText, CLOSED) \/ includes(cleanText, CLOSURE)
        THEN "CLOSED"
        ELSE IF \/ includes(cleanText, DELAY)
                \/ includes(cleanText, DELAYED)
                \/ includes(cleanText, TWO_HOUR)
                \/ includes(cleanText, N2_HOUR)
        THEN "DELAYED"
        ELSE "OPEN"

\* the same function throwing where the name does not occur
checkTextForStatus_throws(text, districtName) ==
    LET cleanText == toUpperCase(text)
        cleanDistrict == toUpperCase(districtName)
    IN  IF \/ includes(cleanText, cleanDistrict)
           \/ includes(cleanText, DELAWARE_CITY_SCHOOLS)
           \/ includes(cleanText, DELAWARE_CITY_SCHOOL_DISTRICT)
        THEN IF includes(cleanText, CLOSED) \/ includes(cleanText, CLOSURE)
             THEN "CLOSED"
             ELSE IF \/ includes(cleanText, DELAY)
                     \/ includes(cleanText, DELAYED)
                     \/ includes(cleanText, TWO_HOUR)
                     \/ includes(cleanText, N2_HOUR)
             THEN "DELAYED"
             ELSE "OPEN"
        ELSE "TypeError"

\* checkTextForStatus of part_000 (94-116) and part_001
checkTextForStatus(text, districtName) ==
    LET cleanText == toUpperCase(text)
        cleanDistrict == toUpperCase(districtName)
    IN  IF \/ includes(cleanText, cleanDistrict)
           \/ includes(cleanText, DELAWARE_CITY_SCHOOLS)
           \/ includes(cleanText, DELAWARE_CITY_SCHOOL_DISTRICT)
        THEN IF includes(cleanText, CLOSED) \/ includes(cleanText, CLOSURE)
             THEN "CLOSED"
             ELSE IF \/ includes(cleanText, DELAY)
                     \/ includes(cleanText, DELAYED)
                     \/ includes(cleanText, TWO_HOUR)
                     \/ includes(cleanText, N2_HOUR)
             THEN "DELAYED"
             ELSE "OPEN"
        ELSE "OPEN"

\* what cheerio reads from the fetched page: $(selector).text() of the
\* targeted region ('' when no element matches) and $('body').text()
Document(region, rest) ==
    [region |-> Concat(region), body |-> Concat(region \o rest)]

\* SCRAPERS[0].scrape of part_000 / part_001 (DCS Homepage): banner, else body
scrapeHomepage(page) ==
    LET bannerText == toUpperCase(page.region)
        bodyText == toUpperCase(page.body)
        text == IF bannerText # <<>> THEN bannerText ELSE bodyText
    IN  IF includes(text, CLOSED) \/ includes(text, CLOSURE) THEN "CLOSED"
        ELSE IF \/ includes(text, DELAY)
                \/ includes(text, DELAYED)
                \/ includes(text, TWO_HOUR)
                \/ includes(text, N2_HOUR)
        THEN "DELAYED"
        ELSE "OPEN"

\* SCRAPERS[0].scrape of failover9 (server.js 31-40): the banner only
scrapeHomepage_failover9(page) ==
    LET bannerText == toUpperCase(page.region)
    IN  IF includes(bannerText, CLOSED) \/ includes(bannerText, CLOSURE) THEN "CLOSED"
        ELSE IF includes(bannerText, DELAY) \/ includes(bannerText, N2_HOUR)
        THEN "DELAYED"
        ELSE "OPEN"

\* SCRAPERS[1..].scrape of part_000 / part_001: the media pages
scrapeMedia(page) == checkTextForStatus(page.body, DISTRICT_NAME_CLEAN)

\* SCRAPERS[1..].scrape of server.js (failover9, parallel)
scrapeMedia_failover9(page) ==
    checkTextForStatus_failover9(page.body, DISTRICT_NAME_CLEAN_failover9)

\* SCRAPERS[2].scrape of server.js 469-479 (WOSU): the window after the name
scrapeWosu(page) ==
    LET normalizedText == toUpperCase(page.body)
        districtIndex == indexOf(normalizedText, DELAWARE_CITY)
        context == substring(normalizedText, districtIndex, districtIndex + WINDOW)
    IN  IF districtIndex # -1
        THEN IF includes(context, CLOSED) THEN "CLOSED"
             ELSE IF includes(context, DELAY) \/ includes(context, N2_HOUR)
             THEN "DELAYED"
             ELSE "OPEN"
        ELSE "OPEN"

\* getSchoolStatus of part_000 1-73 (single source): article.content only
scrapeWosuArticle(page) ==
    LET normalizedText == toUpperCase(page.region)
        normalizedDistrict == toUpperCase(DISTRICT_NAME_CLEAN_failover9)
        districtIndex == indexOf(normalizedText, normalizedDistrict)
        context == substring(normalizedText, districtIndex, districtIndex + WINDOW)
    IN  IF includes(normalizedText, normalizedDistrict)
        THEN IF includes(context, CLOSED) THEN "CLOSED"
             ELSE IF includes(context, DELAY) \/ includes(context, N2_HOUR)
             THEN "DELAYED"
             ELSE "OPEN"
        ELSE "OPEN"

\* the documents: at most MaxRegionWords words in the targeted region and
\* MaxWords words in all
Words(n) == UNION {[1..k -> 1..Len(Vocabulary)] : k \in 0..n}

ExtractInit ==
    /\ ServerStart("parallel")
    /\ PolIdle
    /\ docRegion \in Words(MaxRegionWords)
    /\ docRest \in Words(MaxWords - Len(docRegion))
    /\ extOut = null

\* one scraper reads the fetched document
\* the scrapers that run inside a checkPromise callback
PromiseScrapers == {"scrapeHomepage", "scrapeMedia"}

\* the scraper's fetch returned the document: its verdict is what the
\* extraction returns, passed through the callback where there is one
Extracts(scraper, verdict) ==
    /\ extOut = null
    /\ extOut' = [scraper |-> scraper, fetch |-> "document",
                  verdict |-> IF scraper \in PromiseScrapers
                              THEN checkPromise(scraper, verdict).status
                              ELSE verdict]
    /\ UNCHANGED <<serverVars, polVars, docRegion, docRest>>

\* the scraper's fetch failed or timed out: axios.get throws and the
\* callback's catch makes the verdict
FetchFails ==
    \E scraper \in PromiseScrapers, e \in ErrorMessages :
        /\ extOut = null
        /\ extOut' = [scraper |-> scraper, fetch |-> e,
                      verdict |-> checkPromise(scraper, e).status]
        /\ UNCHANGED <<serverVars, polVars, docRegion, docRest>>

ScrapeHomepage == Extracts("scrapeHomepage", scrapeHomepage(Document(docRegion, docRest)))
ScrapeHomepage9 ==
    Extracts("scrapeHomepage_failover9",
             scrapeHomepage_failover9(Document(docRegion, docRest)))
ScrapeMedia == Extracts("scrapeMedia", scrapeMedia(Document(docRegion, docRest)))
ScrapeMedia9 ==
    Extracts("scrapeMedia_failover9", scrapeMedia_failover9(Document(docRegion, docRest)))
ScrapeWosu == Extracts("scrapeWosu", scrapeWosu(Document(docRegion, docRest)))
ScrapeWosuArticle ==
    Extracts("scrapeWosuArticle", scrapeWosuArticle(Document(docRegion, docRest)))

ExtractNext ==
    \/ ScrapeHomepage
    \/ ScrapeHomepage9
    \/ ScrapeMedia
    \/ ScrapeMedia9
    \/ ScrapeWosu
    \/ ScrapeWosuArticle
    \/ FetchFails

SpecExtract == ExtractInit /\ [][ExtractNext]_vars

\* the statuses of a results array, and how many of them are s
Has(res, s) == \E i \in 1..Len(res) : res[i].status = s
Count(res, s) == Cardinality({i \in 1..Len(res) : res[i].status = s})
Severity == {"parallel", "parallelCached"}

\* C1: severity override: whenever the verdict sequence holds a CLOSED, the
\* canonical status is CLOSED, in registration order and in any other order
C1_ClosedOverrides ==
    (polOut # null /\ polOut.strategy \in Severity /\ Has(polOut.input, "CLOSED"))
        => polOut.result.status = "CLOSED" /\ polOut.permuted.status = "CLOSED"

C1_Witness ==
    /\ polOut # null /\ polOut.strategy = "parallelCached"
    /\ Len(polOut.input) = 3
    /\ polOut.input[1].status = "DELAYED"
    /\ polOut.input[2].status = "OPEN"
    /\ polOut.input[3].status = "CLOSED"
    /\ polOut.result.status = "CLOSED"
    /\ polOut.result.source = sourceName(3)

\* C2: severity override: with no CLOSED and at least one DELAYED the canonical
\* status is DELAYED, however many sources say OPEN or ERROR
C2_DelayedOverrides ==
    (/\ polOut # null /\ polOut.strategy \in Severity
     /\ ~Has(polOut.input, "CLOSED") /\ Has(polOut.input, "DELAYED"))
        => polOut.result.status = "DELAYED" /\ polOut.permuted.status = "DELAYED"

C2_Witness ==
    /\ polOut # null /\ polOut.strategy = "parallel"
    /\ Len(polOut.input) = 3
    /\ polOut.input[1].status = "OPEN"
    /\ polOut.input[2].status = "ERROR"
    /\ polOut.input[3].status = "DELAYED"
    /\ polOut.result.status = "DELAYED"

\* C3: severity override: with no CLOSED, no DELAYED and at least one OPEN the
\* canonical status is OPEN and the attribution is the consensus label whose N
\* is the number of OPEN verdicts (ERROR verdicts are not counted)
C3_OpenConsensus ==
    (/\ polOut # null /\ polOut.strategy \in Severity
     /\ ~Has(polOut.input, "CLOSED") /\ ~Has(polOut.input, "DELAYED")
     /\ Has(polOut.input, "OPEN"))
        => /\ polOut.result.status = "OPEN"
           /\ polOut.result.source =
                 sourceLabel("Consensus of N sources", Count(polOut.input, "OPEN"))
           /\ polOut.permuted.status = "OPEN"
           /\ polOut.permuted.source = polOut.result.source

C3_Witness ==
    /\ polOut # null /\ polOut.strategy = "parallel"
    /\ Len(polOut.input) = 3
    /\ polOut.input[1].status = "ERROR"
    /\ polOut.input[2].status = "ERROR"
    /\ polOut.input[3].status = "OPEN"
    /\ polOut.result.status = "OPEN"
    /\ polOut.result.source.count = 1

\* C10: majority vote: a permutation of the verdict sequence never changes the
\* canonical status (the source named in the attribution may change)
C10_MajorityPermutationInvariant ==
    (polOut # null /\ polOut.strategy = "majority")
        => polOut.result.status = polOut.permuted.status

C10_Witness ==
    /\ polOut # null /\ polOut.strategy = "majority"
    /\ Len(polOut.input) = 3
    /\ polPerm # Identity(3)
    /\ polOut.result.status = "CLOSED"
    /\ polOut.input[1].status = "CLOSED"
    /\ polOut.input[2].status = "OPEN"
    /\ polOut.input[3].status = "CLOSED"
    /\ polOut.result.source # polOut.permuted.source

\* ------------------------------------------------- claims about the server
Done(r) == pc[r] = "done"
Hit(r)  == Done(r) /\ variant \in Cached /\ response[r].cached
Miss(r) == pc[r] # "idle" /\ ~Hit(r)

\* the cycle of request r consulted every source and every one of them failed
AllFailed(r) == \A i \in Sources : scraped[r][i] \in ErrorMessages

\* the per-source error details a response carries
ErrorDetails(resp) ==
    IF "results_summary" \in DOMAIN resp
    THEN SelectSeq(resp.results_summary, LAMBDA e : "error" \in DOMAIN e)
    ELSE IF "debug_errors" \in DOMAIN resp THEN resp.debug_errors
    ELSE <<>>

SafeDefaults == {"UNKNOWN", "NO REPORT / UNKNOWN", "OPEN"}

\* C4: when every source of a cycle yields ERROR, the result of every strategy
\* is UNKNOWN (or the safe default) and lists one error detail per source
C4_AllErrorListsEverySource ==
    \A r \in Requests :
        (Done(r) /\ AllFailed(r)) =>
            /\ response[r].status \in SafeDefaults
            /\ Len(ErrorDetails(response[r])) = NumSources

\* the summary entry source i must have after producing outcome o
SummaryEntryOk(e, i, o) ==
    /\ e.name = i
    /\ o \in Decisive => e.status = o /\ "error" \notin DOMAIN e
    /\ o \in ErrorMessages => e.status = "ERROR" /\ "error" \in DOMAIN e /\ e.error = o

\* C5: every result, of every strategy, carries a per-source summary with one
\* entry per configured source: its raw verdict and, if it failed, its error
C5_SummaryForEverySource ==
    \A r \in Requests :
        (Done(r) /\ ~Hit(r)) =>
            /\ "results_summary" \in DOMAIN response[r]
            /\ Len(response[r].results_summary) = NumSources
            /\ \A i \in Sources :
                  SummaryEntryOk(response[r].results_summary[i], i, scraped[r][i])

\* C6: concurrent misses are coalesced: at most one resolution cycle of the
\* cached server is in flight
C6_AtMostOneCycleInFlight ==
    variant \in Cached => Cardinality(InFlight) <= 1

\* C7: reads that miss while another missed read is still in flight all get
\* the same result: status, timestamp, source and per-source summary
C7_ConcurrentMissesShareResult ==
    \A r1, r2 \in Requests :
        (/\ variant \in Cached /\ r1 \in overlap[r2]
         /\ Done(r1) /\ Done(r2) /\ ~Hit(r1) /\ ~Hit(r2))
            => response[r1] = response[r2]

\* when the result request r found in the slot was produced
ProducedAt(r) == isoToMs(seen[r].timestamp)

\* C8: of two reads, the second arriving after the first was answered and
\* finding the first one's result in the slot: within the TTL window of that
\* result the second returns the first one's timestamp with cached:true; after
\* the window it runs a new cycle and returns a fresh timestamp, cached:false
C8_HitWithinTtlMissAfter ==
    \A r1, r2 \in Requests :
        (/\ variant \in Cached /\ r1 < r2 /\ Done(r1) /\ pc[r2] # "idle"
         /\ r1 \notin overlap[r2]
         /\ seen[r2] # null /\ seen[r2].timestamp = response[r1].timestamp)
            => IF now[r2] - isoToMs(response[r1].timestamp) < CACHE_TTL_MS
               THEN /\ Hit(r2)
                    /\ response[r2].timestamp = response[r1].timestamp
               ELSE /\ Miss(r2)
                    /\ Done(r2) => /\ ~response[r2].cached
                                   /\ isoToMs(response[r2].timestamp) >= now[r2]
                                   /\ response[r2].timestamp # response[r1].timestamp

\* C9: a stored result is served as a hit exactly to the reads that arrive
\* less than the TTL after the time it was produced
C9_TtlFromProductionTime ==
    \A r \in Requests :
        (variant \in Cached /\ pc[r] # "idle" /\ seen[r] # null)
            => (Hit(r) <=> now[r] - ProducedAt(r) < CACHE_TTL_MS)

\* the majority rule as the specification words it, on the three counts
MajorityRule(open, closed, delayed) ==
    IF closed > open /\ closed >= delayed THEN "CLOSED"
    ELSE IF delayed > open /\ delayed > closed THEN "DELAYED"
    ELSE IF open > 0 THEN "OPEN"
    ELSE "UNKNOWN"

\* C11: majority vote returns, for every verdict sequence, the majority rule
\* applied to the numbers of OPEN, CLOSED and DELAYED verdicts
C11_MajorityIsTheCountRule ==
    (polOut # null /\ polOut.strategy = "majority")
        => polOut.result.status =
             MajorityRule(Count(polOut.input, "OPEN"), Count(polOut.input, "CLOSED"),
                          Count(polOut.input, "DELAYED"))

C11_Witness ==
    /\ polOut # null /\ polOut.strategy = "majority"
    /\ Count(polOut.input, "CLOSED") = 1
    /\ Count(polOut.input, "DELAYED") = 1
    /\ Count(polOut.input, "OPEN") = 0
    /\ Count(polOut.input, "ERROR") = 1
    /\ polOut.result.status = "CLOSED"

\* ------------------------------------------------ one cycle on a cold server
\* The first request of a server of any revision, from its arrival to its
\* response, with time passing in between.
CycleNext ==
    \/ \E d \in TickSteps(variant) : Tick(d)
    \/ StatusMiss(1)
    \/ \E i \in Sources, o \in Outcomes : ScrapeSettles(1, i, o)
    \/ FailoverStart(1)
    \/ \E o \in Outcomes : Failover9Settles(1, o)
    \/ \E o \in Outcomes : Failover3Settles(1, o)

SpecCycle == Init /\ [][CycleNext]_vars

\* C12: in the failover revisions the sources are consulted in list order; the
\* response carries the status and the name of the first source that returned
\* a decisive status, every source before it threw, and no source after it
\* is fetched.
C12_FirstDecisiveSourceWins ==
    variant \in Failover =>
        \A r \in Requests :
            /\ \A j \in Sources : scraped[r][j] # unscraped
                   => \A h \in 1..(j - 1) : scraped[r][h] # unscraped
            /\ \A k \in Sources :
                   (/\ scraped[r][k] \in Decisive
                    /\ \A j \in 1..(k - 1) : scraped[r][j] \notin Decisive)
                   => /\ Done(r)
                      /\ response[r].status = scraped[r][k]
                      /\ response[r].source = sourceName(k)
                      /\ \A j \in 1..(k - 1) : scraped[r][j] \in ErrorMessages
                      /\ \A j \in (k + 1)..NumSources : scraped[r][j] = unscraped

C12_Witness ==
    /\ variant \in Failover
    /\ Done(1)
    /\ scraped[1][1] \in ErrorMessages
    /\ scraped[1][2] = "OPEN"
    /\ response[1].status = "OPEN"
    /\ response[1].source = sourceName(2)

\* the response carries a per-source summary with exactly one entry per source,
\* in the order of SCRAPERS
SummaryInOrder(resp) ==
    /\ "results_summary" \in DOMAIN resp
    /\ Len(resp.results_summary) = NumSources
    /\ \A i \in Sources : resp.results_summary[i].name = i

\* C13: in the parallel revisions every response lists the sources in
\* registration order, one entry per source, whatever the order in which the
\* scrapes settled.
C13_SummaryInRegistrationOrder ==
    variant \in Parallel =>
        \A r \in Requests : Done(r) => SummaryInOrder(response[r])

\* the request was given up: nothing will answer it, or it was answered with
\* the handler's internal error
Aborted(r) ==
    \/ pc[r] = "aborted"
    \/ Done(r) /\ response[r].status = "ERROR"

\* C14: a scraper that throws becomes an ERROR verdict with its message for
\* that source only.  The request is never aborted, the cycle goes on (the
\* other scrapes stay in flight, the failover loop moves to the next source),
\* and every other source's verdict is the one its own scrape produced.
C14_FailureIsolation ==
    \A r \in Requests :
        /\ ~Aborted(r)
        /\ (variant \in Parallel /\ Miss(r)) =>
              \A i \in Sources :
                 IF scraped[r][i] = unscraped
                 THEN results[r][i] = pending
                 ELSE /\ SummaryEntryOk(results[r][i], i, scraped[r][i])
                      /\ results[r][i].status = "ERROR"
                            <=> scraped[r][i] \in ErrorMessages
        /\ (variant \in Failover /\ Miss(r)) =>
              \A i \in Sources :
                 scraped[r][i] \in ErrorMessages =>
                    /\ IF i < NumSources THEN pos[r] > i \/ Done(r) ELSE Done(r)
                    /\ i < NumSources /\ pc[r] = "fetching" => pos[r] = i + 1
                                                              \/ scraped[r][i + 1] # unscraped
                    /\ variant = "failover9" =>
                          \E k \in 1..Len(errors[r]) : errors[r][k] = <<i, scraped[r][i]>>

C14_Witness ==
    /\ variant \in Parallel
    /\ Done(1)
    /\ scraped[1][1] \in ErrorMessages
    /\ scraped[1][2] = "CLOSED"
    /\ response[1].status = "CLOSED"
    /\ response[1].results_summary[1].status = "ERROR"
    /\ response[1].results_summary[1].error = scraped[1][1]
    /\ response[1].results_summary[2].status = "CLOSED"

\* the canonical status a strategy owes to a verdict sequence: verdicts[i] is
\* what source i produced, unscraped if it was not consulted
Votes(verdicts, s) == Cardinality({i \in DOMAIN verdicts : verdicts[i] = s})

StatusOf(v, verdicts) ==
    CASE v \in {"parallel", "parallelCached"} ->
            IF Votes(verdicts, "CLOSED") > 0 THEN "CLOSED"
            ELSE IF Votes(verdicts, "DELAYED") > 0 THEN "DELAYED"
            ELSE IF Votes(verdicts, "OPEN") > 0 THEN "OPEN"
            ELSE "UNKNOWN"
      [] v = "majority" ->
            MajorityRule(Votes(verdicts, "OPEN"), Votes(verdicts, "CLOSED"),
                         Votes(verdicts, "DELAYED"))
      [] v \in Failover ->
            IF \E k \in DOMAIN verdicts : verdicts[k] \in Decisive
            THEN verdicts[CHOOSE k \in DOMAIN verdicts :
                             /\ verdicts[k] \in Decisive
                             /\ \A j \in 1..(k - 1) : verdicts[j] \notin Decisive]
            ELSE IF v = "failover9" THEN "OPEN" ELSE "NO REPORT / UNKNOWN"

\* C15: the canonical status of every cycle is one function of the strategy
\* and the verdict sequence of that cycle, so two cycles with the same verdict
\* sequence have the same status, whatever the clock, the order in which the
\* scrapes settled and the cache slot when the cycle ran.
C15_StatusDependsOnVerdictsOnly ==
    /\ \A r \in Requests :
          (Done(r) /\ ~Hit(r)) => response[r].status = StatusOf(variant, scraped[r])
    /\ \A r1, r2 \in Requests :
          (Done(r1) /\ ~Hit(r1) /\ Done(r2) /\ ~Hit(r2) /\ scraped[r1] = scraped[r2])
             => response[r1].status = response[r2].status

C15_Witness ==
    /\ Done(1) /\ ~Hit(1)
    /\ Done(2) /\ ~Hit(2)
    /\ scraped[1] = scraped[2]
    /\ scraped[1][1] = "DELAYED"
    /\ lastResult # null
    /\ seen[2] # null
    /\ response[1].timestamp # response[2].timestamp
    /\ response[1].status = "DELAYED"
    /\ response[2].status = "DELAYED"

\* the longest a fetch of revision v is meant to stay unanswered
FetchBound(v) == IF HasTimeout(v) THEN Timeout(v) ELSE TIMEOUT_INTENDED_MS

\* C16: every fetch is bounded by its own timeout: no scrape is still awaited
\* once its timeout has passed since it was started, so that every cycle
\* goes on to its response.
C16_EveryFetchBoundedByTimeout ==
    \A r \in InFlight : clock - started[r] <= FetchBound(variant)

\* the statuses a payload may carry
CanonicalStatuses == {"OPEN", "CLOSED", "DELAYED", "UNKNOWN", "NO REPORT / UNKNOWN"}

\* C17: every payload the server sends, computed or served from the cache
\* slot, has a status among OPEN, CLOSED, DELAYED, UNKNOWN and
\* NO REPORT / UNKNOWN; ERROR is never the status of a response.
C17_StatusIsCanonical ==
    \A r \in Requests :
        /\ response[r] # null => response[r].status \in CanonicalStatuses
        /\ variant \in Cached /\ lastResult # null
              => lastResult.status \in CanonicalStatuses

C17_Witness ==
    /\ variant = "majority"
    /\ Done(1) /\ AllFailed(1)
    /\ \A i \in Sources : response[1].results_summary[i].status = "ERROR"
    /\ response[1].status = "UNKNOWN"
    /\ Done(2) /\ Hit(2)
    /\ response[2].status = "UNKNOWN"

\* C18: when every source of a failover revision throws, the response has
\* the status UNKNOWN or the safe default and records the error of the first
\* source in priority order, not of a later one.
C18_AllErrorRecordsFirstFailure ==
    variant \in Failover =>
        \A r \in Requests :
            (Done(r) /\ AllFailed(r)) =>
                /\ response[r].status \in SafeDefaults
                /\ variant = "failover3" =>
                      response[r].error =
                          <<"All sources failed. First failure:", scraped[r][1]>>
                /\ variant = "failover9" =>
                      /\ Len(response[r].debug_errors) >= 1
                      /\ response[r].debug_errors[1] = <<1, scraped[r][1]>>

C18_Witness ==
    /\ variant = "failover3"
    /\ Done(1) /\ AllFailed(1)
    /\ scraped[1][1] # scraped[1][2]
    /\ response[1].status = "NO REPORT / UNKNOWN"
    /\ response[1].error[2] = scraped[1][1]

\* the name of the first entry of the array whose status is s
FirstContributor(res, s) ==
    res[CHOOSE k \in 1..Len(res) :
            /\ res[k].status = s
            /\ \A j \in 1..(k - 1) : res[j].status # s].name

\* C19 as stated: whenever the majority vote returns CLOSED, DELAYED or OPEN,
\* the attribution names the first source in registration order that voted
\* for that kind, together with the number of sources that voted for it.
C19_AttributionNamesFirstContributor ==
    (polOut # null /\ polOut.strategy = "majority"
                   /\ polOut.result.status \in Decisive)
        => /\ polOut.result.source.name =
                 FirstContributor(polOut.input, polOut.result.status)
           /\ polOut.result.source.count = Count(polOut.input, polOut.result.status)

\* C19, amended: a CLOSED or DELAYED majority is attributed to the first
\* source in registration order that voted for it, with the number of such
\* votes; an OPEN result is attributed to no source: its attribution is the
\* label "Consensus / plurality of N sources" with the number of OPEN votes.
C19_AttributionOfMajority ==
    (polOut # null /\ polOut.strategy = "majority")
        => /\ polOut.result.status \in {"CLOSED", "DELAYED"} =>
                 polOut.result.source =
                     [label |-> "NAME (majority of N sources)",
                      name |-> FirstContributor(polOut.input, polOut.result.status),
                      count |-> Count(polOut.input, polOut.result.status)]
           /\ polOut.result.status = "OPEN" =>
                 polOut.result.source =
                     sourceLabel("Consensus / plurality of N sources",
                                 Count(polOut.input, "OPEN"))

C19_Witness ==
    /\ polOut # null /\ polOut.strategy = "majority"
    /\ Len(polOut.input) = 4
    /\ polOut.input[1].status = "OPEN"
    /\ polOut.input[2].status = "DELAYED"
    /\ polOut.input[3].status = "ERROR"
    /\ polOut.input[4].status = "DELAYED"
    /\ polOut.result.status = "DELAYED"
    /\ polOut.result.source.name = 2
    /\ polOut.result.source.count = 2

\* C20: in the parallel revisions the policy runs and the response is
\* produced only after every scrape of the cycle has settled; while one is
\* still pending there is no response and the cache slot is not written,
\* even if a CLOSED verdict is already in.
C20_ResponseOnlyAfterAllSettled ==
    variant \in Parallel =>
        \A r \in Requests :
            /\ (Done(r) /\ ~Hit(r)) => \A i \in Sources : scraped[r][i] # unscraped
            /\ pc[r] = "fetching" =>
                  /\ response[r] = null
                  /\ \E i \in Sources : scraped[r][i] = unscraped
            /\ (variant \in Cached /\ lastResult # null) =>
                  \E q \in Requests :
                     /\ Done(q) /\ ~Hit(q)
                     /\ \A i \in Sources : scraped[q][i] # unscraped

C20_Witness ==
    /\ variant \in Parallel
    /\ pc[1] = "fetching"
    /\ scraped[1][2] = "CLOSED"
    /\ results[1][2].status = "CLOSED"
    /\ scraped[1][1] = unscraped
    /\ clock > started[1]
    /\ response[1] = null

\* the sources of request r whose fetch was started and has not settled
FetchesInFlight(r) ==
    IF pc[r] # "fetching" THEN {}
    ELSE IF variant \in Failover THEN {pos[r]}
    ELSE {i \in Sources : scraped[r][i] = unscraped}

\* C21: in the failover revisions at most one fetch of a cycle is in flight at
\* any time, and the fetch of source i+1 is started only after the fetch of
\* source i has settled with an error.
C21_OneFetchAtATime ==
    variant \in Failover =>
        \A r \in Requests :
            /\ Cardinality(FetchesInFlight(r)) <= 1
            /\ \A i \in FetchesInFlight(r) :
                  /\ scraped[r][i] = unscraped
                  /\ \A j \in 1..(i - 1) : scraped[r][j] \in ErrorMessages
                  /\ \A j \in (i + 1)..NumSources : scraped[r][j] = unscraped
            /\ \A i \in Sources :
                  (i > 1 /\ scraped[r][i] # unscraped)
                      => scraped[r][i - 1] \in ErrorMessages

C21_Witness ==
    /\ variant \in Failover
    /\ pc[1] = "fetching"
    /\ pos[1] = 2
    /\ FetchesInFlight(1) = {2}
    /\ scraped[1][1] \in ErrorMessages
    /\ started[1] > 0

\* payload is result with the one field cached added, set to flag
Annotated(payload, result, flag) ==
    /\ DOMAIN payload = DOMAIN result \cup {"cached"}
    /\ payload.cached = flag
    /\ \A f \in DOMAIN result : payload[f] = result[f]

\* C22: the step that answers a request of a caching server is either a hit,
\* which starts no fetch, leaves the stored result and the stored time as
\* they were and returns the stored result with only cached:true added, or
\* the end of a miss, which has run one cycle over every source and leaves
\* that cycle's result in the slot.
C22_HitLeavesSlotMissRefillsIt ==
    [][\A r \in Requests :
          (variant \in Cached /\ pc[r] # "done" /\ pc'[r] = "done") =>
              IF pc[r] = "idle"
              THEN /\ lastResult # null
                   /\ UNCHANGED <<lastResult, lastResultTime, results, scraped, started>>
                   /\ Annotated(response'[r], lastResult, TRUE)
              ELSE /\ \A i \in Sources : scraped'[r][i] # unscraped
                   /\ lastResult' # null
                   /\ Annotated(response'[r], lastResult', FALSE)
                   /\ lastResult'.results_summary = results'[r]]_vars

C22_Witness ==
    /\ variant \in Cached
    /\ Done(1) /\ ~Hit(1)
    /\ Done(2) /\ Hit(2)
    /\ \A i \in Sources : scraped[2][i] = unscraped
    /\ lastResult # null
    /\ Annotated(response[2], lastResult, TRUE)
    /\ Annotated(response[1], lastResult, FALSE)
    /\ now[2] > lastResultTime

\* C23: a cycle in which every source failed stores its UNKNOWN result like any
\* other, and every read that finds this result in the slot within the TTL
\* of its production is answered from it with cached:true and contacts no
\* source.
C23_UnknownIsCachedForTtl ==
    variant \in Cached =>
        /\ \A r \in Requests :
              (Done(r) /\ ~Hit(r) /\ AllFailed(r)) =>
                  /\ response[r].status = "UNKNOWN"
                  /\ lastResult # null
        /\ \A r \in Requests :
              (/\ pc[r] # "idle"
               /\ seen[r] # null
               /\ seen[r].status = "UNKNOWN"
               /\ now[r] - ProducedAt(r) < CACHE_TTL_MS)
                  => /\ Hit(r)
                     /\ Annotated(response[r], seen[r], TRUE)
                     /\ \A i \in Sources : scraped[r][i] = unscraped

\* ---------------------------------------------- claims about extraction
\* the fetched document, and occurrence of a word in a text whatever the case
Page == Document(docRegion, docRest)

\* a scraper fetched the document and classified it
Extracted == extOut # null /\ extOut.fetch = "document"

Occurs(text, word) == includes(toUpperCase(text), toUpperCase(word))

\* one of the district's names occurs: each of them contains 'Delaware City'
AliasOccurs(text) == Occurs(text, DISTRICT_NAME_CLEAN_failover9)

ClosureOccurs(text) == Occurs(text, CLOSED) \/ Occurs(text, CLOSURE)

DelayOccurs(text) ==
    \/ Occurs(text, DELAY)
    \/ Occurs(text, DELAYED)
    \/ Occurs(text, TWO_HOUR)
    \/ Occurs(text, N2_HOUR)

\* the scrapers that look for the district's name, and those of its own site
AliasScrapers == {"scrapeMedia", "scrapeMedia_failover9", "scrapeWosu",
                  "scrapeWosuArticle"}
HomepageScrapers == {"scrapeHomepage", "scrapeHomepage_failover9"}

WindowAfterName(text) ==
    LET upper == toUpperCase(text)
    IN  IF AliasOccurs(text)
        THEN substring(upper, indexOf(upper, DELAWARE_CITY),
                       indexOf(upper, DELAWARE_CITY) + WINDOW)
        ELSE <<>>

\* the text a scraper inspects for keywords
Scope(scraper, page) ==
    CASE scraper = "scrapeHomepage" ->
            IF page.region # <<>> THEN page.region ELSE page.body
      [] scraper = "scrapeHomepage_failover9" -> page.region
      [] scraper = "scrapeMedia" ->
            IF \/ Occurs(page.body, DELAWARE_CITY_SCHOOLS)
               \/ Occurs(page.body, DELAWARE_CITY_SCHOOL_DISTRICT)
            THEN page.body ELSE <<>>
      [] scraper = "scrapeMedia_failover9" ->
            IF AliasOccurs(page.body) THEN page.body ELSE <<>>
      [] scraper = "scrapeWosu" -> WindowAfterName(page.body)
      [] scraper = "scrapeWosuArticle" -> WindowAfterName(page.region)

\* closure keywords outrank delay keywords; neither gives OPEN
KeywordRule(text) ==
    IF ClosureOccurs(text) THEN "CLOSED"
    ELSE IF DelayOccurs(text) THEN "DELAYED"
    ELSE "OPEN"

\* C25: every scraper's verdict is CLOSED if a closure keyword (CLOSED,
\* CLOSURE) occurs in the text it inspects, else DELAYED if a delay keyword
\* (DELAY, DELAYED, TWO-HOUR, 2-HOUR) occurs there, else OPEN.
C25_ClosureOutranksDelay ==
    Extracted => extOut.verdict = KeywordRule(Scope(extOut.scraper, Page))

\* the scrapers that inspect a window after the district's name, and the
\* text each of them searches for the name
WindowScrapers == {"scrapeWosu", "scrapeWosuArticle"}
WindowedText(scraper, page) ==
    IF scraper = "scrapeWosu" THEN page.body ELSE page.region

\* the indices, from 0, at which the district's name occurs in the text
Occurrences(text) ==
    {k \in 0..(Len(text) - Len(DELAWARE_CITY)) :
        \A j \in 1..Len(DELAWARE_CITY) :
            toUpperCase(text)[k + j] = DELAWARE_CITY[j]}

\* the window of WINDOW characters that starts at index k
WindowAt(text, k) == substring(toUpperCase(text), k, k + WINDOW)

KeywordOccurs(text) == ClosureOccurs(text) \/ DelayOccurs(text)

\* C26: a windowed scraper answers OPEN when no closure or delay keyword
\* lies inside the 50-character window of an occurrence of the district's
\* name, and CLOSED or DELAYED when a keyword lies inside the window of any
\* occurrence of the name.
C26_OnlyKeywordsInAWindowCount ==
    (Extracted /\ extOut.scraper \in WindowScrapers) =>
        LET text == WindowedText(extOut.scraper, Page)
        IN  /\ (\A k \in Occurrences(text) : ~KeywordOccurs(WindowAt(text, k)))
                => extOut.verdict = "OPEN"
            /\ (\E k \in Occurrences(text) : KeywordOccurs(WindowAt(text, k)))
                => extOut.verdict \in {"CLOSED", "DELAYED"}

\* the scrapers that query a region of the document (alert banner, article)
RegionScrapers == {"scrapeHomepage", "scrapeHomepage_failover9",
                   "scrapeWosuArticle"}

\* the text the keyword rules of a region scraper inspect once they are
\* applied to the whole document
WholeDocumentScope(scraper, page) ==
    IF scraper \in HomepageScrapers THEN page.body
    ELSE WindowAfterName(page.body)

\* C27: when the region a scraper queries is absent or empty, its verdict is
\* the one its keyword rules give on the whole document text, so a closure
\* keyword elsewhere in the document yields CLOSED.
C27_EmptyRegionFallsBackToDocument ==
    (Extracted /\ extOut.scraper \in RegionScrapers /\ Page.region = <<>>)
        => extOut.verdict = KeywordRule(WholeDocumentScope(extOut.scraper, Page))

\* C28: a scraper's verdict is ERROR exactly when its fetch failed or timed
\* out; on every fetched document, whatever it contains or lacks, the
\* verdict is one of OPEN, CLOSED, DELAYED.
C28_ErrorIffFetchFailed ==
    extOut # null =>
        /\ extOut.verdict = "ERROR" <=> extOut.fetch \in ErrorMessages
        /\ extOut.fetch = "document" => extOut.verdict \in Decisive

\* a fetched page without the district's name and without any keyword, read
\* by a scraper of the majority revision
C28_Witness ==
    /\ Extracted
    /\ extOut.scraper = "scrapeMedia"
    /\ docRest # <<>>
    /\ ~AliasOccurs(Page.body)
    /\ ~KeywordOccurs(Page.body)
    /\ extOut.verdict = "OPEN"

\* C29: the majority vote answers UNKNOWN only when every verdict is ERROR;
\* whenever at least one verdict is OPEN, CLOSED or DELAYED the status is
\* one of these three and the 'Conflicting results' branch is not taken.
C29_UnknownOnlyWhenAllError ==
    (polOut # null /\ polOut.strategy = "majority") =>
        \A out \in {polOut.result, polOut.permuted} :
            /\ out.status = "UNKNOWN"
                  <=> Count(polOut.input, "ERROR") = Len(polOut.input)
            /\ Count(polOut.input, "ERROR") < Len(polOut.input)
                  => out.status \in Decisive
            /\ out.source # sourceLabel("Conflicting results", 0)

\* no OPEN verdict and as many CLOSED as DELAYED ones, next to a failure
C29_Witness ==
    /\ polOut # null /\ polOut.strategy = "majority"
    /\ Len(polOut.input) = 4
    /\ Count(polOut.input, "CLOSED") = 1
    /\ Count(polOut.input, "DELAYED") = 2
    /\ Count(polOut.input, "ERROR") = 1
    /\ polOut.result.status = "DELAYED"
    /\ polOut.permuted.status = "DELAYED"

\* the requests whose cycle has completed and stored its result in the slot
Stored == {r \in Requests : Done(r) /\ Miss(r) /\ response[r] # InternalServerError}

\* C30: the cache slot never moves backwards in time. Once a cycle has stored
\* its result, lastResultTime stays at or after the time that cycle stored,
\* and the slot holds the result of a cycle that did not start earlier.
C30_SlotNeverMovesBack ==
    variant \in Cached =>
        \A r \in Stored :
            /\ lastResultTime >= now[r]
            /\ \E q \in Stored :
                  /\ started[q] >= started[r]
                  /\ lastResultTime = now[q]
                  /\ lastResult.results_summary = results[q]

\* the order of the statuses: CLOSED > DELAYED > OPEN > UNKNOWN
SeverityRank(status) ==
    CASE status = "CLOSED" -> 3
      [] status = "DELAYED" -> 2
      [] status = "OPEN" -> 1
      [] status = "UNKNOWN" -> 0

\* what the majority vote answers on the verdict sequence of this state, in
\* registration order and in the permuted order
MajorityOnSame ==
    decideStatus(ResultsOf(polResults, Identity(Len(polResults)), TRUE)).status
MajorityOnPermuted == decideStatus(ResultsOf(polResults, polPerm, TRUE)).status

\* C31: on every verdict sequence the status of the severity override is at
\* least as severe as the status of the majority vote on the same sequence,
\* in the order CLOSED > DELAYED > OPEN > UNKNOWN.
C31_SeverityAtLeastMajority ==
    (polOut # null /\ polOut.strategy \in Severity) =>
        /\ SeverityRank(polOut.result.status) >= SeverityRank(MajorityOnSame)
        /\ SeverityRank(polOut.permuted.status) >= SeverityRank(MajorityOnPermuted)

\* one CLOSED against two OPEN: the override says CLOSED, the vote OPEN
C31_Witness ==
    /\ polOut # null /\ polOut.strategy = "parallelCached"
    /\ Count(polOut.input, "CLOSED") = 1
    /\ Count(polOut.input, "OPEN") = 2
    /\ polOut.result.status = "CLOSED"
    /\ MajorityOnSame = "OPEN"

\* the sources consulted by the cycle of request r that did not fail all
\* produced the verdict v, and at least one did
Unanimous(r, v) ==
    /\ \E i \in Sources : scraped[r][i] = v
    /\ \A i \in Sources : scraped[r][i] \in Decisive => scraped[r][i] = v

\* C32: when the non-error verdicts of a cycle are all the same value v, and
\* there is at least one, the status is v in every revision: priority
\* fallback, severity override and majority vote agree.
C32_UnanimousVerdictIsTheStatus ==
    \A r \in Requests :
        (Done(r) /\ ~Hit(r)) =>
            \A v \in Decisive : Unanimous(r, v) => response[r].status = v

\* the majority vote with one failed source and one DELAYED verdict
C32_Witness ==
    /\ variant = "majority"
    /\ Done(1) /\ ~Hit(1)
    /\ scraped[1][1] \in ErrorMessages
    /\ Unanimous(1, "DELAYED")
    /\ response[1].status = "DELAYED"

====
